---- MODULE Spec2Model ----
(***************************************************************************)
(* Model of app.py: the Shopify customer webhook that reads the customer's *)
(* metafields, upserts a Brevo contact and sends an alert e-mail through   *)
(* SMTP or the Brevo API with fallback.                                    *)
(*                                                                         *)
(* Python values are tagged records [t, v]: t is "none", "str" or "int"    *)
(* and v is the text as a sequence of chunks (a chunk is a line-break      *)
(* character or a run of other characters; phone numbers are written one  *)
(* character per chunk).                                                   *)
(***************************************************************************)
EXTENDS Naturals, Sequences, FiniteSets

VARIABLES
    cfg,     \* process-wide configuration read from the environment
    store,   \* the marketing platform's contacts: email -> sequence of records
    prev,    \* the previous request, when its upsert was accepted
    pc,      \* position of the request being handled
    req,     \* the request body
    mf,      \* get_customer_metafields: the fetched list while it is resolved
    meta,    \* what get_customer_metafields returned
    up,      \* brevo_upsert_contact: calls, GET status, writes sent, result
    alert,   \* send_alert: transports tried, attempts, result
    resp,    \* the HTTP response of the handler
    calls    \* outbound calls of the request, per collaborator

vars == <<cfg, store, prev, pc, req, mf, meta, up, alert, resp, calls>>

---------------------------------------------------------------------------
(* Python values *)

None == [t |-> "none", v |-> <<>>]

Str(chunks) == [t |-> "str", v |-> chunks]

Int(digits) == [t |-> "int", v |-> <<digits>>]

\* bool(x) of a None, str or int
Truthy(x) ==
    CASE x.t = "none" -> FALSE
      [] x.t = "str" -> x.v # <<>>
      [] x.t = "int" -> x.v # <<"0">>

\* x or d
Or(x, d) == IF Truthy(x) THEN x ELSE d

IsString(x) == x.t = "str"

LineBreaks == {"\n", "\r"}

HasLineBreak(x) == \E i \in DOMAIN x.v : x.v[i] \in LineBreaks

\* f"{a}{b}..." of values: the concatenation of their texts
Concat(xs) ==
    LET RECURSIVE cat(_)
        cat(s) == IF s = <<>> THEN <<>> ELSE Head(s).v \o cat(Tail(s))
    IN Str(cat(xs))

---------------------------------------------------------------------------
(* Configuration (app.py lines 19-35) *)

Recipients == <<Str(<<"ventas@x.cl">>), Str(<<"info@x.cl">>)>>

Configs ==
    [BREVO_API_KEY : BOOLEAN,
     ALERT_PROVIDER : {"smtp", "brevo"},
     SMTP_READY : BOOLEAN,
     ALERT_TO : {<<>>, Recipients}]

\* retries: int = 2 of _send_via_smtp
retries == 2

---------------------------------------------------------------------------
(* Request bodies *)

Body(kind, id, email, first, last, phone) ==
    [kind |-> kind, id |-> id, email |-> email,
     first_name |-> first, last_name |-> last, phone |-> phone]

EmailA == Str(<<"a@x.cl">>)
EmailB == Str(<<"b@x.cl">>)

PhoneLocal == Str(<<"9", "1", "2", "3", "4", "5", "6", "7", "8">>)
PhoneShort == Str(<<"1", "2", "3", "4", "5">>)

\* payloads that carry a customer id and an email
ValidBodies ==
    { Body("object", Int("7"), EmailA, Str(<<"Ana">>), None, PhoneLocal),
      Body("object", Int("8"), EmailB, Str(<<"Ana", "\n", "Bcc: z@y.cl">>),
           Str(<<"Paz">>), PhoneShort) }

\* bodies that are not JSON, JSON that is not an object, objects lacking a field
InvalidBodies ==
    { Body("malformed", None, None, None, None, None),
      Body("empty_object", None, None, None, None, None),
      Body("array", None, None, None, None, None),
      Body("object", None, EmailA, Str(<<"Ana">>), None, None),
      Body("object", Int("7"), None, Str(<<"Ana">>), None, None) }

Bodies == ValidBodies \cup InvalidBodies

NoBody == Body("none", None, None, None, None, None)

\* request.get_json(silent=True): None when the body does not parse
Parses(body) == body.kind # "malformed"

\* bool(data) of the parsed body
BodyTruthy(body) == body.kind \in {"object", "array"}

\* data.get exists only on a dict
HasGet(body) == body.kind \in {"object", "empty_object"}

---------------------------------------------------------------------------
(* Results *)

Res(ok, info) == [ok |-> ok, info |-> info]

NoRes == Res(FALSE, "pending")

NoMeta == [set |-> FALSE, modelo |-> None, precio |-> None, describe |-> None,
           plano_url |-> None, direccion |-> None, presupuesto |-> None,
           persona |-> None]

NoMf == [list |-> <<>>, gid |-> None]

NoAnswer == [exc |-> FALSE, status |-> 0, text |-> "none"]

NoUp == [calls |-> 0, get |-> NoAnswer, writes |-> <<>>, resps |-> <<>>,
         res |-> NoRes]

NoAlert == [calls |-> 0, role |-> "none", smtpCalls |-> 0, brevoCalls |-> 0,
            i |-> 0, smtpLog |-> <<>>, mailPosts |-> 0, smtpRes |-> NoRes,
            brevoRes |-> NoRes, res |-> NoRes, raised |-> FALSE]

NoCalls == [shopify |-> 0, brevo |-> 0, smtp |-> 0]

NoPrev == [set |-> FALSE, req |-> NoBody, meta |-> NoMeta, store |-> <<>>]

Emails == {EmailA, EmailB}

Init ==
    /\ cfg \in Configs
    /\ store = [e \in Emails |-> <<>>]
    /\ prev = NoPrev
    /\ pc = "idle"
    /\ req = NoBody
    /\ mf = NoMf
    /\ meta = NoMeta
    /\ up = NoUp
    /\ alert = NoAlert
    /\ resp = 0
    /\ calls = NoCalls

---------------------------------------------------------------------------
(* webhook_shopify: parsing and validation (lines 387-402) *)

\* the handler's answer to a body before any outbound call: 0 when it goes on
EarlyStatus(body) ==
    IF ~Parses(body) \/ ~BodyTruthy(body) THEN 400
    ELSE IF ~HasGet(body) THEN 500
    ELSE IF ~Truthy(body.id) \/ ~Truthy(Or(body.email, Str(<<>>))) THEN 400
    ELSE 0

Receive ==
    /\ pc = "idle"
    /\ \E body \in Bodies :
        /\ req' = body
        /\ IF EarlyStatus(body) = 0
           THEN pc' = "metafields" /\ resp' = resp
           ELSE pc' = "done" /\ resp' = EarlyStatus(body)
    /\ UNCHANGED <<cfg, store, prev, mf, meta, up, alert, calls>>

---------------------------------------------------------------------------
(* get_customer_metafields and get_public_file_url (lines 79-170) *)

Metafield(key, value) == [key |-> key, value |-> value]

PlanoGid == Str(<<"gid://shopify/GenericFile/1">>)

\* what the shop answers to the metafield list fetch
MetafieldLists ==
    { <<>>,
      << Metafield("modelo", Str(<<"Casa 36">>)),
         Metafield("tengo_un_plano", PlanoGid),
         Metafield("modelo", Str(<<"Casa 72">>)),
         Metafield("indica_tu_presupuesto", Str(<<"20M">>)) >> }

\* val(key, default): the value of the first metafield named key
val(metafields, key, default) ==
    LET hits == {i \in DOMAIN metafields : metafields[i].key = key}
    IN IF hits = {} THEN default
       ELSE metafields[CHOOSE i \in hits : \A j \in hits : i <= j].value

\* the tuple of line 165 for a fetched list and a resolved plan URL
MetaTuple(metafields, plano_url) ==
    [set |-> TRUE,
     modelo |-> val(metafields, "modelo", Str(<<"Sin modelo">>)),
     precio |-> val(metafields, "precio", Str(<<"Sin precio">>)),
     describe |-> val(metafields, "describe_lo_que_quieres", Str(<<"Sin descripcion">>)),
     plano_url |-> plano_url,
     direccion |-> val(metafields, "tu_direccin_actual", Str(<<"Sin direccion">>)),
     presupuesto |-> val(metafields, "indica_tu_presupuesto", Str(<<"Sin presupuesto">>)),
     persona |-> val(metafields, "tipo_de_persona", Str(<<"Sin persona">>))]

\* the tuple of line 170
MetaError ==
    [set |-> TRUE, modelo |-> Str(<<"Error">>), precio |-> Str(<<"Error">>),
     describe |-> Str(<<"Error">>), plano_url |-> Str(<<"Error">>),
     direccion |-> Str(<<"Error">>), presupuesto |-> Str(<<"Error">>),
     persona |-> Str(<<"Error">>)]

\* answers of a GraphQL node query: a failure, no URL in the node, or a URL
MediaAnswers ==
    { [exc |-> TRUE, url |-> None],
      [exc |-> FALSE, url |-> None],
      [exc |-> FALSE, url |-> Str(<<"https://cdn.x/plano.pdf">>)] }

\* "if url: return url" inside the try of each lookup
Resolved(ans) == ~ans.exc /\ Truthy(ans.url)

\* the REST fetch of the metafield list, up to the call of get_public_file_url
FetchMetafields ==
    /\ pc = "metafields"
    /\ calls' = [calls EXCEPT !.shopify = @ + 1]
    /\ \/ \* the request, raise_for_status or the JSON decoding fails
          /\ meta' = MetaError
          /\ mf' = mf
          /\ pc' = "upsert"
       \/ \E list \in MetafieldLists :
            LET plano_gid == val(list, "tengo_un_plano", Str(<<>>))
            IN IF Truthy(plano_gid)
               THEN /\ mf' = [list |-> list, gid |-> plano_gid]
                    /\ meta' = meta
                    /\ pc' = "media_image"
               ELSE /\ meta' = MetaTuple(list, Str(<<"Sin plano">>))
                    /\ mf' = mf
                    /\ pc' = "upsert"
    /\ UNCHANGED <<cfg, store, prev, req, up, alert, resp>>

\* get_public_file_url, first lookup: the node as a MediaImage
MediaImageLookup ==
    /\ pc = "media_image"
    /\ calls' = [calls EXCEPT !.shopify = @ + 1]
    /\ \E ans \in MediaAnswers :
        IF Resolved(ans)
        THEN /\ meta' = MetaTuple(mf.list, ans.url)
             /\ mf' = NoMf
             /\ pc' = "upsert"
        ELSE /\ meta' = meta
             /\ mf' = mf
             /\ pc' = "generic_file"
    /\ UNCHANGED <<cfg, store, prev, req, up, alert, resp>>

\* get_public_file_url, second lookup: the node as a GenericFile; None at the end
GenericFileLookup ==
    /\ pc = "generic_file"
    /\ calls' = [calls EXCEPT !.shopify = @ + 1]
    /\ \E ans \in MediaAnswers :
        meta' = MetaTuple(mf.list, IF Resolved(ans) THEN ans.url ELSE None)
    /\ mf' = NoMf
    /\ pc' = "upsert"
    /\ UNCHANGED <<cfg, store, prev, req, up, alert, resp>>

---------------------------------------------------------------------------
(* brevo_upsert_contact (lines 172-236) *)

\* the fields webhook_shopify reads from the payload (lines 395-399)
Email(body) == Or(body.email, Str(<<>>))
FirstName(body) == Or(body.first_name, Str(<<>>))
LastName(body) == Or(body.last_name, Str(<<>>))
Phone(body) == Or(body.phone, Str(<<>>))

\* attrs of lines 190-204
Attrs(first_name, last_name, phone, m) ==
    [NOMBRE |-> Or(first_name, Str(<<>>)),
     APELLIDOS |-> Or(last_name, Str(<<>>)),
     TELEFONO_WHATSAPP |-> Or(phone, Str(<<>>)),
     WHATSAPP |-> Or(phone, Str(<<>>)),
     SMS |-> Or(phone, Str(<<>>)),
     LANDLINE_NUMBER |-> Or(phone, Str(<<>>)),
     MODELO_CABANA |-> m.modelo,
     PRECIO_CABANA |-> m.precio,
     DESCRIPCION_CLIENTE |-> m.describe,
     PLANO_CLIENTE |-> m.plano_url,
     DIRECCION_CLIENTE |-> m.direccion,
     PRESUPUESTO_CLIENTE |-> m.presupuesto,
     TIPO_DE_PERSONA |-> m.persona]

Answer(exc, status, text) == [exc |-> exc, status |-> status, text |-> text]

\* the platform's answer to the existence GET: what its store says, or a failure
GetAnswers(email) ==
    { Answer(FALSE, IF store[email] # <<>> THEN 200 ELSE 404, "contact"),
      Answer(FALSE, 500, "Internal error"),
      Answer(TRUE, 0, "timeout") }

\* the platform's answer to a PUT or a POST
WriteAnswers(method) ==
    { Answer(FALSE, IF method = "PUT" THEN 204 ELSE 201, "ok"),
      Answer(FALSE, 400, "Invalid phone number"),
      Answer(TRUE, 0, "timeout") }

\* faulty variant of WriteMethod: the two branches exchanged
WriteMethodSwapped(get) ==
    IF get.exc THEN "NONE"
    ELSE IF get.status = 200 THEN "POST"
    ELSE IF get.status = 404 THEN "PUT"
    ELSE "NONE"

\* faulty variant of WriteMethod: no update branch, an existing contact is
\* created again
WriteMethodAlwaysPost(get) ==
    IF get.exc THEN "NONE"
    ELSE IF get.status \in {200, 404} THEN "POST"
    ELSE "NONE"

\* the branch on the GET's status (lines 206, 221, 235)
WriteMethod(get) ==
    IF get.exc THEN "NONE"
    ELSE IF get.status = 200 THEN "PUT"
    ELSE IF get.status = 404 THEN "POST"
    ELSE "NONE"

\* the result returned for a write's answer (lines 215-219, 230-234)
WriteResult(method, ans) ==
    IF ans.exc THEN Res(FALSE, IF method = "PUT" THEN "Error actualizando" ELSE "Error creando")
    ELSE IF method = "PUT"
         THEN IF 200 <= ans.status /\ ans.status < 300
              THEN Res(TRUE, "updated") ELSE Res(FALSE, "PUT failed")
         ELSE IF ans.status \in {200, 201}
              THEN Res(TRUE, "created") ELSE Res(FALSE, "POST failed")

\* the platform applies a write it answers with 2xx: PUT replaces the contact's
\* attributes, POST adds a contact
Applied(contacts, method, ans, attrs) ==
    IF ans.exc \/ ~(200 <= ans.status /\ ans.status < 300) THEN contacts
    ELSE IF method = "PUT" THEN [i \in DOMAIN contacts |-> attrs]
    ELSE Append(contacts, attrs)

\* no API key: the upsert is skipped (lines 176-178)
UpsertSkipped ==
    /\ pc = "upsert"
    /\ ~cfg.BREVO_API_KEY
    /\ up' = [up EXCEPT !.calls = @ + 1, !.res = Res(FALSE, "no_api_key")]
    /\ pc' = "alert"
    /\ UNCHANGED <<cfg, store, prev, req, mf, meta, alert, resp, calls>>

\* the existence GET and the branch on its status (lines 181-188, 206, 221, 235)
UpsertGet ==
    /\ pc = "upsert"
    /\ cfg.BREVO_API_KEY
    /\ calls' = [calls EXCEPT !.brevo = @ + 1]
    /\ \E ans \in GetAnswers(Email(req)) :
        /\ IF WriteMethod(ans) = "NONE"
           THEN /\ up' = [up EXCEPT !.calls = @ + 1, !.get = ans,
                                    !.res = Res(FALSE, IF ans.exc
                                                       THEN "Error consultando contacto"
                                                       ELSE "GET failed")]
                /\ pc' = "alert"
           ELSE /\ up' = [up EXCEPT !.calls = @ + 1, !.get = ans]
                /\ pc' = "write"
    /\ UNCHANGED <<cfg, store, prev, req, mf, meta, alert, resp>>

\* the PUT or POST and the result returned (lines 208-234)
UpsertWrite ==
    /\ pc = "write"
    /\ calls' = [calls EXCEPT !.brevo = @ + 1]
    /\ LET method == WriteMethod(up.get)
           email == Email(req)
           attrs == Attrs(FirstName(req), LastName(req), Phone(req), meta)
       IN \E ans \in WriteAnswers(method) :
            /\ up' = [up EXCEPT
                        !.writes = Append(@, [method |-> method, email |-> email,
                                              attributes |-> attrs]),
                        !.resps = Append(@, ans),
                        !.res = WriteResult(method, ans)]
            /\ store' = [store EXCEPT ![email] = Applied(@, method, ans, attrs)]
    /\ pc' = "alert"
    /\ UNCHANGED <<cfg, prev, req, mf, meta, alert, resp>>

---------------------------------------------------------------------------
(* send_alert, _send_via_smtp, _send_via_brevo_api (lines 238-327) *)

\* subject of line 423
Subject(body) ==
    Concat(<<Str(<<"Nuevo cliente Shopify: ">>), FirstName(body), Str(<<" ">>),
             LastName(body), Str(<<" (">>), Email(body), Str(<<")">>)>>)

\* lines 245-250 run outside the try: EmailMessage refuses a header value that
\* holds a line feed or a carriage return (ValueError)
BuildRaises(subject, to_list) ==
    \/ HasLineBreak(subject)
    \/ \E k \in DOMAIN to_list : HasLineBreak(to_list[k])

\* the answers of POST /v3/smtp/email: sent, a 2xx whose body is no JSON,
\* a refusal, a transport failure
MailAnswers ==
    { Answer(FALSE, 201, "json"),
      Answer(FALSE, 200, "not json"),
      Answer(FALSE, 401, "unauthorized"),
      Answer(TRUE, 0, "timeout") }

\* the result of _send_via_brevo_api for an answer (lines 290-296)
MailResult(ans) ==
    IF ans.exc THEN Res(FALSE, "brevo_api_exception")
    ELSE IF 200 <= ans.status /\ ans.status < 300
         THEN IF ans.text = "json" THEN Res(TRUE, "brevo")
              ELSE Res(FALSE, "brevo_api_exception")
         ELSE Res(FALSE, "brevo_api_status")

\* faulty variant of AttemptsLeft: one pass too many
AttemptsLeftOff(i) == i <= retries

\* "if i < retries: sleep(1.5)" and the loop's range(retries + 1)

AttemptsLeft(i) == i < retries

\* the other transport is configured (lines 314, 324)
FallbackConfigured(c) ==
    IF c.ALERT_PROVIDER = "smtp" THEN c.BREVO_API_KEY ELSE c.SMTP_READY

Other(transport) == IF transport = "smtp" THEN "brevo" ELSE "smtp"

\* faulty variant of FallbackResult: the primary's failure is returned
FallbackResultPrimary(primaryRes, secondaryRes) == primaryRes

\* what send_alert returns after the fallback ran (lines 316, 326)

FallbackResult(primaryRes, secondaryRes) == secondaryRes

\* send_alert goes on to the other transport after this one returned res
FallsBack(a, res) == a.role = "primary" /\ ~res.ok /\ FallbackConfigured(cfg)

\* send_alert's record after a transport returned res (lines 310-327)
Returned(a, transport, res) ==
    LET a1 == IF transport = "smtp" THEN [a EXCEPT !.smtpRes = res]
              ELSE [a EXCEPT !.brevoRes = res]
        primaryRes == IF transport = "smtp" THEN a.brevoRes ELSE a.smtpRes
    IN IF FallsBack(a, res) THEN [a1 EXCEPT !.role = "secondary"]
       ELSE IF a.role = "primary" THEN [a1 EXCEPT !.role = "returned", !.res = res]
       ELSE [a1 EXCEPT !.role = "returned",
                       !.res = FallbackResult(primaryRes, res)]

PcAfter(a, transport, res) ==
    IF FallsBack(a, res) THEN Other(transport) ELSE "respond"

\* webhook_shopify with no recipients configured (lines 445-446)
NoRecipients ==
    /\ pc = "alert"
    /\ cfg.ALERT_TO = <<>>
    /\ alert' = [alert EXCEPT !.res = Res(FALSE, "no_recipients_in_env")]
    /\ pc' = "respond"
    /\ UNCHANGED <<cfg, store, prev, req, mf, meta, up, resp, calls>>

\* send_alert up to the call of the primary transport (lines 303-310, 320)
send_alert ==
    /\ pc = "alert"
    /\ cfg.ALERT_TO # <<>>
    /\ alert' = [alert EXCEPT !.calls = @ + 1, !.role = "primary"]
    /\ pc' = cfg.ALERT_PROVIDER
    /\ UNCHANGED <<cfg, store, prev, req, mf, meta, up, resp, calls>>

\* _send_via_smtp up to its loop: the configuration test and the message
SmtpBuild ==
    /\ pc = "smtp"
    /\ IF ~cfg.SMTP_READY
       THEN /\ alert' = Returned([alert EXCEPT !.smtpCalls = @ + 1], "smtp",
                                 Res(FALSE, "smtp_config_missing"))
            /\ pc' = PcAfter(alert, "smtp", Res(FALSE, "smtp_config_missing"))
            /\ resp' = resp
       ELSE IF BuildRaises(Subject(req), cfg.ALERT_TO)
       THEN \* the ValueError leaves send_alert and the handler: Flask answers 500
            /\ alert' = [alert EXCEPT !.smtpCalls = @ + 1, !.raised = TRUE]
            /\ pc' = "done"
            /\ resp' = 500
       ELSE /\ alert' = [alert EXCEPT !.smtpCalls = @ + 1, !.i = 0]
            /\ pc' = "smtp_send"
            /\ resp' = resp
    /\ UNCHANGED <<cfg, store, prev, req, mf, meta, up, calls>>

\* one pass of the loop of _send_via_smtp (lines 252-265)
SmtpAttempt ==
    /\ pc = "smtp_send"
    /\ calls' = [calls EXCEPT !.smtp = @ + 1]
    /\ \E sent \in BOOLEAN :
        LET a == [alert EXCEPT !.smtpLog = Append(@, sent)]
        IN IF sent
           THEN /\ alert' = Returned(a, "smtp", Res(TRUE, "smtp"))
                /\ pc' = PcAfter(a, "smtp", Res(TRUE, "smtp"))
           ELSE IF AttemptsLeft(alert.i)
           THEN /\ alert' = [a EXCEPT !.i = @ + 1]
                /\ pc' = "smtp_send"
           ELSE /\ alert' = Returned(a, "smtp", Res(FALSE, "smtp_send_failed"))
                /\ pc' = PcAfter(a, "smtp", Res(FALSE, "smtp_send_failed"))
    /\ UNCHANGED <<cfg, store, prev, req, mf, meta, up, resp>>

\* _send_via_brevo_api without an API key (lines 271-272)
BrevoNoKey ==
    /\ pc = "brevo"
    /\ ~cfg.BREVO_API_KEY
    /\ LET a == [alert EXCEPT !.brevoCalls = @ + 1]
           res == Res(FALSE, "brevo_api_key_missing")
       IN /\ alert' = Returned(a, "brevo", res)
          /\ pc' = PcAfter(a, "brevo", res)
    /\ UNCHANGED <<cfg, store, prev, req, mf, meta, up, resp, calls>>

\* _send_via_brevo_api: the POST and its result (lines 274-296)
BrevoSend ==
    /\ pc = "brevo"
    /\ cfg.BREVO_API_KEY
    /\ calls' = [calls EXCEPT !.brevo = @ + 1]
    /\ \E ans \in MailAnswers :
        LET a == [alert EXCEPT !.brevoCalls = @ + 1, !.mailPosts = @ + 1]
        IN /\ alert' = Returned(a, "brevo", MailResult(ans))
           /\ pc' = PcAfter(a, "brevo", MailResult(ans))
    /\ UNCHANGED <<cfg, store, prev, req, mf, meta, up, resp>>

\* the response of lines 448-452
Respond ==
    /\ pc = "respond"
    /\ resp' = 201
    /\ pc' = "done"
    /\ UNCHANGED <<cfg, store, prev, req, mf, meta, up, alert, calls>>

\* the response is sent; the next request starts from fresh locals
Finish ==
    /\ pc = "done"
    /\ pc' = "idle"
    /\ prev' = IF up.res.ok
               THEN [set |-> TRUE, req |-> req, meta |-> meta, store |-> store]
               ELSE NoPrev
    /\ req' = NoBody
    /\ mf' = NoMf
    /\ meta' = NoMeta
    /\ up' = NoUp
    /\ alert' = NoAlert
    /\ resp' = 0
    /\ calls' = NoCalls
    /\ UNCHANGED <<cfg, store>>

Next ==
    \/ Receive
    \/ FetchMetafields
    \/ MediaImageLookup
    \/ GenericFileLookup
    \/ UpsertSkipped
    \/ UpsertGet
    \/ UpsertWrite
    \/ NoRecipients
    \/ send_alert
    \/ SmtpBuild
    \/ SmtpAttempt
    \/ BrevoNoKey
    \/ BrevoSend
    \/ Respond
    \/ Finish

Spec == Init /\ [][Next]_vars

\* an SMTP attempt under way completes: the connection carries timeout=20
FairSpec == Spec /\ WF_vars(SmtpAttempt)

---------------------------------------------------------------------------
(* Properties *)

Puts == Cardinality({k \in DOMAIN up.writes : up.writes[k].method = "PUT"})
Posts == Cardinality({k \in DOMAIN up.writes : up.writes[k].method = "POST"})

GetMade == up.get # NoAnswer
UpsertReturned == up.res # NoRes

\* C1: once brevo_upsert_contact has returned, a GET answered 200 was followed
\* by exactly one PUT and no POST, a GET answered 404 by exactly one POST and no
\* PUT, and any other GET status or a GET transport error by no write at all
\* and a result with ok = false.
C1_ExistenceBranch ==
    (UpsertReturned /\ GetMade) =>
        /\ (~up.get.exc /\ up.get.status = 200) => (Puts = 1 /\ Posts = 0)
        /\ (~up.get.exc /\ up.get.status = 404) => (Posts = 1 /\ Puts = 0)
        /\ (up.get.exc \/ up.get.status \notin {200, 404}) =>
               (up.writes = <<>> /\ ~up.res.ok)

C1_Witness ==
    /\ UpsertReturned
    /\ ~up.get.exc /\ up.get.status = 200
    /\ Puts = 1 /\ Posts = 0

CarriesIdAndEmail(body) ==
    body.kind = "object" /\ Truthy(body.id) /\ Truthy(body.email)

\* C2: a request whose payload carries a customer id and an email is answered
\* with a 2xx status, with brevo_upsert_contact invoked exactly once and at
\* most two writes sent.
C2_ValidAnswered2xx ==
    (pc = "done" /\ CarriesIdAndEmail(req)) =>
        /\ resp \in 200..299
        /\ up.calls = 1
        /\ Len(up.writes) <= 2

\* C3: a request whose body does not parse, or is not an object carrying the
\* customer id and the email, is answered 400 with no outbound call.
C3_InvalidAnswered400 ==
    (pc = "done" /\ ~CarriesIdAndEmail(req)) =>
        /\ resp = 400
        /\ calls = NoCalls

Primary == cfg.ALERT_PROVIDER
Secondary == Other(cfg.ALERT_PROVIDER)

TransportRes(t) == IF t = "smtp" THEN alert.smtpRes ELSE alert.brevoRes
Invocations(t) == IF t = "smtp" THEN alert.smtpCalls ELSE alert.brevoCalls
\* send attempts on a transport: SMTP submissions, HTTP posts
Attempts(t) == IF t = "smtp" THEN Len(alert.smtpLog) ELSE alert.mailPosts

PrimaryFailed == TransportRes(Primary) # NoRes /\ ~TransportRes(Primary).ok
SendAlertReturned == alert.role = "returned"
SendAlertEnded == SendAlertReturned \/ alert.raised

PhoneKeys == {"TELEFONO_WHATSAPP", "WHATSAPP", "SMS", "LANDLINE_NUMBER"}

StripPhone(attrs) == [k \in (DOMAIN attrs) \ PhoneKeys |-> attrs[k]]

PhoneRejected(ans) ==
    ~ans.exc /\ ans.status \in 400..499 /\ ans.text = "Invalid phone number"

\* C5: a write refused with a client error about the phone field is retried
\* exactly once with the phone-derived attributes removed and the others kept;
\* no upsert sends more than two writes.
C5_PhoneRetry ==
    /\ Len(up.writes) <= 2
    /\ (UpsertReturned /\ up.resps # <<>> /\ PhoneRejected(up.resps[1])) =>
           /\ Len(up.writes) = 2
           /\ up.writes[2].method = up.writes[1].method
           /\ up.writes[2].attributes = StripPhone(up.writes[1].attributes)

MetaFields ==
    {meta.modelo, meta.precio, meta.describe, meta.plano_url, meta.direccion,
     meta.presupuesto, meta.persona}

\* C6: each of the seven fields get_customer_metafields returns is a string,
\* never a null.
C6_SevenStrings == meta.set => \A x \in MetaFields : IsString(x)

\* C7: send_alert never raises to its caller; when it ends it has returned a
\* result.
C7_NeverRaises == ~alert.raised /\ (SendAlertEnded => alert.res # NoRes)

SameAsPrevious == prev.set /\ prev.req = req /\ prev.meta = meta

\* C8: when a request repeats the previous one (same payload, same enrichment)
\* and both upserts were accepted, the platform holds exactly one contact for
\* the email, its attributes are those of the last write, and the store is what
\* the first run left.
C8_Idempotent ==
    (pc = "done" /\ SameAsPrevious /\ up.res.ok) =>
        /\ Len(store[Email(req)]) = 1
        /\ store[Email(req)][1] = up.writes[Len(up.writes)].attributes
        /\ store = prev.store

C8_Witness ==
    /\ pc = "done" /\ SameAsPrevious /\ up.res.ok
    /\ up.writes[1].method = "PUT"
    /\ store = prev.store

Digits == {"0", "1", "2", "3", "4", "5", "6", "7", "8", "9"}

\* the regional international format: +569 and eight digits
IsNormalized(x) ==
    /\ x.t = "str"
    /\ Len(x.v) = 12
    /\ SubSeq(x.v, 1, 4) = <<"+", "5", "6", "9">>
    /\ \A k \in 5..12 : x.v[k] \in Digits

\* C9: every phone attribute a PUT or POST sends is left out (empty) or is in
\* the normalized format.
C9_OnlyNormalizedPhones ==
    \A k \in DOMAIN up.writes : \A key \in PhoneKeys :
        LET x == up.writes[k].attributes[key]
        IN x = Str(<<>>) \/ IsNormalized(x)

AllFailed(log) == \A k \in DOMAIN log : ~log[k]

C10_Attempts ==
    /\ Len(alert.smtpLog) <= retries + 1
    /\ calls.smtp = Len(alert.smtpLog)
    /\ \A k \in 1..(Len(alert.smtpLog) - 1) : ~alert.smtpLog[k]
    /\ pc = "smtp_send" => (alert.i = Len(alert.smtpLog) /\ AllFailed(alert.smtpLog))
    /\ alert.smtpRes # NoRes =>
          IF alert.smtpRes.ok
          THEN alert.smtpLog # <<>> /\ alert.smtpLog[Len(alert.smtpLog)]
          ELSE /\ AllFailed(alert.smtpLog)
               /\ Len(alert.smtpLog) = (IF cfg.SMTP_READY THEN retries + 1 ELSE 0)
    /\ (Primary = "smtp" /\ alert.brevoCalls > 0) =>
          (alert.smtpRes # NoRes /\ ~alert.smtpRes.ok)

\* C10: _send_via_smtp makes at most retries + 1 = 3 attempts and its loop
\* ends; it returns ok at the first attempt that succeeds and attempts no more;
\* it returns a failure only after 3 failed attempts, or after none when the
\* SMTP configuration is missing; with SMTP as the primary, the Brevo transport
\* starts only after _send_via_smtp returned a failure.
C10_SmtpTerminates ==
    /\ []C10_Attempts
    /\ [](pc = "smtp_send" => <>(pc # "smtp_send"))

C10_Witness ==
    /\ Primary = "smtp"
    /\ alert.smtpRes = Res(FALSE, "smtp_send_failed")
    /\ Len(alert.smtpLog) = retries + 1
    /\ alert.brevoCalls = 1

====
